---- MODULE Spec2Model ----
(***************************************************************************)
(* A model of parse_params.py (hifiberry/dspprofiles): the DSPParamsParser *)
(* class that reads a .params text dump into a store of parameter records, *)
(* aggregates addresses per cell and writes the XML metadata descriptor.   *)
(*                                                                         *)
(* Text is a sequence of characters.  A character is a one-character       *)
(* string ("\n", " ", "=", a digit, a letter) or one of the words the code *)
(* compares whole ("Cell Name", "Delay_A", ...), kept as one symbol.       *)
(***************************************************************************)
EXTENDS Integers, Sequences, FiniteSets, TLC

VARIABLES
    file,         \* the input file on disk: its text, or NoFile
    content,      \* parse_file: the text the last call read, or NoFile
    parameters,   \* DSPParamsParser.parameters, the store
    out,          \* what the last operation returned or wrote
    text,         \* the argument of _split_into_blocks (SpecSplit)
    blocks,       \* its return value (SpecSplit)
    block,        \* the argument of _parse_block (SpecBlock)
    param_info,   \* its return value (SpecBlock)
    args,         \* the arguments of the run: argparse's namespace, or of save_to_xml
    pc,           \* main: the statement the run is at
    io,           \* the files opened so far, in order, each with its mode
    outfile,      \* the file at the output path: what was written, or NoFile
    stdout        \* what was printed so far, one entry for each print

vars == <<file, content, parameters, out, text, blocks, block, param_info,
          args, pc, io, outfile, stdout>>

\* The variables of a run of main.
mainVars == <<args, pc, io, outfile, stdout>>

\* ------------------------------------------------------------------ bounds

\* The longest text handed to _split_into_blocks in SpecSplit.
MaxLen == 8

\* The most lines of a block handed to _parse_block in SpecBlock.
MaxLines == 4

\* The most blocks written to the input file in Spec.
MaxBlocks == 2

\* ------------------------------------------------------------- characters

NL == "\n"
SP == " "
EQ == "="

\* What \s of the re module and str.strip() take for whitespace.
IsSpace(c) == c \in {NL, SP}

DigitChars == <<"0", "1", "2", "3", "4", "5", "6", "7", "8", "9">>

\* What \d of the re module takes for a digit.
IsDigit(c) == \E d \in 1..10 : DigitChars[d] = c

DigitVal(c) == (CHOOSE d \in 1..10 : DigitChars[d] = c) - 1

\* int(s) of a string of digits: leading zeros do not count.
RECURSIVE IntOf(_)
IntOf(s) ==
    IF s = <<>> THEN 0
    ELSE 10 * IntOf(SubSeq(s, 1, Len(s) - 1)) + DigitVal(s[Len(s)])

\* str(n) of a non-negative integer: no leading zeros.
RECURSIVE StrOf(_)
StrOf(n) ==
    IF n < 10 THEN <<DigitChars[n + 1]>>
    ELSE StrOf(n \div 10) \o <<DigitChars[(n % 10) + 1]>>

\* str.strip(): the string without its leading and trailing whitespace.
RECURSIVE LStrip(_)
LStrip(s) ==
    IF s # <<>> /\ IsSpace(Head(s)) THEN LStrip(Tail(s)) ELSE s

RECURSIVE RStrip(_)
RStrip(s) ==
    IF s # <<>> /\ IsSpace(s[Len(s)]) THEN RStrip(SubSeq(s, 1, Len(s) - 1)) ELSE s

Strip(s) == RStrip(LStrip(s))

\* str.split(sep) for a one-character separator: the pieces between the
\* separators, empty pieces included.
RECURSIVE SplitFrom(_, _, _, _)
SplitFrom(s, sep, from, i) ==
    IF i > Len(s) THEN <<SubSeq(s, from, Len(s))>>
    ELSE IF s[i] = sep
    THEN <<SubSeq(s, from, i - 1)>> \o SplitFrom(s, sep, i + 1, i + 1)
    ELSE SplitFrom(s, sep, from, i + 1)

SplitOn(s, sep) == SplitFrom(s, sep, 1, 1)

\* ----------------------------------------------------- _split_into_blocks

\* The end of the whitespace run that starts at i.
RECURSIVE RunEnd(_, _)
RunEnd(s, i) ==
    IF i < Len(s) /\ IsSpace(s[i + 1]) THEN RunEnd(s, i + 1) ELSE i

NewlinesIn(s, i, j) == {k \in i..j : s[k] = NL}

\* The pattern with one newline fewer, \n\s*\n: a single blank line would cut.
SepMatchEndOneBlank(s, i) ==
    IF s[i] # NL THEN 0
    ELSE LET nls == NewlinesIn(s, i, RunEnd(s, i))
         IN  IF Cardinality(nls) >= 2
             THEN CHOOSE k \in nls : \A m \in nls : m <= k
             ELSE 0

\* re.match of \n\s*\n\s*\n at position i: 0 when there is no match, else the
\* position of the last character matched.  Both \s* are greedy, so the match
\* runs to the last newline of the whitespace run.
SepMatchEnd(s, i) ==
    IF s[i] # NL THEN 0
    ELSE LET nls == NewlinesIn(s, i, RunEnd(s, i))
         IN  IF Cardinality(nls) >= 3
             THEN CHOOSE k \in nls : \A m \in nls : m <= k
             ELSE 0

\* re.split(r'\n\s*\n\s*\n', s): the pieces between the leftmost matches,
\* empty pieces included.
RECURSIVE ReSplitFrom(_, _, _)
ReSplitFrom(s, from, i) ==
    IF i > Len(s) THEN <<SubSeq(s, from, Len(s))>>
    ELSE LET e == SepMatchEnd(s, i)
         IN  IF e # 0
             THEN <<SubSeq(s, from, i - 1)>> \o ReSplitFrom(s, e + 1, e + 1)
             ELSE ReSplitFrom(s, from, i + 1)

ReSplit(s) == ReSplitFrom(s, 1, 1)

StripAll(ss) == [k \in 1..Len(ss) |-> Strip(ss[k])]

\* A filter that keeps every block, the empty ones too.
NonEmptyOrNot(s) == TRUE

\* if block.strip()
NonEmpty(s) == s # <<>>

\* [block.strip() for block in blocks if block.strip()]
_split_into_blocks(s) == SelectSeq(StripAll(ReSplit(s)), NonEmpty)

\* ----------------------------------------------------------- _parse_block

CellNamePrefix == "Cell Name"
ParamNamePrefix == "Parameter Name"
ParamAddrPrefix == "Parameter Address"

\* The first position at or after i that holds no whitespace (\s* is greedy).
RECURSIVE SkipSpace(_, _)
SkipSpace(s, i) ==
    IF i <= Len(s) /\ IsSpace(s[i]) THEN SkipSpace(s, i + 1) ELSE i

\* The end of the run of digits that starts at i (\d+ is greedy).
RECURSIVE DigitsEnd(_, _)
DigitsEnd(s, i) ==
    IF i < Len(s) /\ IsDigit(s[i + 1]) THEN DigitsEnd(s, i + 1) ELSE i

NoMatch == [matched |-> FALSE, group |-> <<>>]

Match(g) == [matched |-> TRUE, group |-> g]

\* prefix\s*=\s*(.+) matched at position i of a line; group 1.  When only
\* whitespace follows the "=", the second \s* gives its last character back
\* to (.+).
TextMatchAt(line, prefix, i) ==
    IF line[i] # prefix THEN NoMatch
    ELSE LET j == SkipSpace(line, i + 1)
         IN  IF j > Len(line) \/ line[j] # EQ THEN NoMatch
             ELSE LET k == SkipSpace(line, j + 1)
                  IN  IF k <= Len(line) THEN Match(SubSeq(line, k, Len(line)))
                      ELSE IF k - 1 > j THEN Match(<<line[Len(line)]>>)
                      ELSE NoMatch

\* prefix\s*=\s*(\d+) matched at position i of a line; group 1.
DigitsMatchAt(line, prefix, i) ==
    IF line[i] # prefix THEN NoMatch
    ELSE LET j == SkipSpace(line, i + 1)
         IN  IF j > Len(line) \/ line[j] # EQ THEN NoMatch
             ELSE LET k == SkipSpace(line, j + 1)
                  IN  IF k <= Len(line) /\ IsDigit(line[k])
                      THEN Match(SubSeq(line, k, DigitsEnd(line, k)))
                      ELSE NoMatch

\* re.search(r'<prefix>\s*=\s*(.+)', line): the leftmost match.
RECURSIVE TextSearchFrom(_, _, _)
TextSearchFrom(line, prefix, i) ==
    IF i > Len(line) THEN NoMatch
    ELSE LET m == TextMatchAt(line, prefix, i)
         IN  IF m.matched THEN m ELSE TextSearchFrom(line, prefix, i + 1)

TextSearch(line, prefix) == TextSearchFrom(line, prefix, 1)

\* re.search(r'Parameter Address\s*=\s*(\d+)', line): the leftmost match.
RECURSIVE DigitsSearchFrom(_, _, _)
DigitsSearchFrom(line, prefix, i) ==
    IF i > Len(line) THEN NoMatch
    ELSE LET m == DigitsMatchAt(line, prefix, i)
         IN  IF m.matched THEN m ELSE DigitsSearchFrom(line, prefix, i + 1)

DigitsSearch(line, prefix) == DigitsSearchFrom(line, prefix, 1)

\* line.startswith(prefix)
StartsWith(line, prefix) == line # <<>> /\ Head(line) = prefix

EmptyDict == [k \in {} |-> <<>>]

\* d[key] = v of a dict.
Put(d, key, v) == [k \in DOMAIN d \cup {key} |-> IF k = key THEN v ELSE d[k]]

\* d[key] = v only when the key is new: the first assignment would stay.
PutIfAbsent(d, key, v) == IF key \in DOMAIN d THEN d ELSE Put(d, key, v)

\* An assignment to param_info in the loop of _parse_block.
Assign(d, key, v) == Put(d, key, v)

\* The body of the loop over the lines of a block.
ParseLine(d, raw) ==
    LET line == Strip(raw)
    IN  IF StartsWith(line, CellNamePrefix)
        THEN LET m == TextSearch(line, CellNamePrefix)
             IN  IF m.matched THEN Assign(d, "cell_name", Strip(m.group)) ELSE d
        ELSE IF StartsWith(line, ParamNamePrefix)
        THEN LET m == TextSearch(line, ParamNamePrefix)
             IN  IF m.matched THEN Assign(d, "parameter_name", Strip(m.group)) ELSE d
        ELSE IF StartsWith(line, ParamAddrPrefix)
        THEN LET m == DigitsSearch(line, ParamAddrPrefix)
             IN  IF m.matched THEN Assign(d, "parameter_address", Strip(m.group)) ELSE d
        ELSE d

RECURSIVE ParseLines(_, _)
ParseLines(d, lines) ==
    IF lines = <<>> THEN d ELSE ParseLines(ParseLine(d, Head(lines)), Tail(lines))

RequiredKeys == {"cell_name", "parameter_name", "parameter_address"}

\* What _parse_block returns for a block without all three fields.
None == [none |-> TRUE]

_parse_block(b) ==
    LET d == ParseLines(EmptyDict, SplitOn(b, NL))
    IN  IF RequiredKeys \subseteq DOMAIN d THEN d ELSE None

\* ------------------------------------------------------------- parse_file

\* The loop that gives up at the first block without a record.
RECURSIVE ParseBlocksUntilBad(_)
ParseBlocksUntilBad(bs) ==
    IF bs = <<>> THEN <<>>
    ELSE LET param == _parse_block(Head(bs))
         IN  IF param # None THEN <<param>> \o ParseBlocksUntilBad(Tail(bs))
             ELSE <<>>

\* for block in blocks: param_info = _parse_block(block); if param_info: append
RECURSIVE ParseBlocks(_)
ParseBlocks(bs) ==
    IF bs = <<>> THEN <<>>
    ELSE LET param == _parse_block(Head(bs))
         IN  IF param # None THEN <<param>> \o ParseBlocks(Tail(bs))
             ELSE ParseBlocks(Tail(bs))

\* The store parse_file builds from the text it read.
ParseContent(c) == ParseBlocks(_split_into_blocks(c))

\* A parse_file that keeps the records of the calls before.
ResetKept(old) == old

\* self.parameters = [], the first statement of parse_file.
Reset(old) == <<>>

\* --------------------------------------------- get_cells_with_address_lists

\* list.sort(key=int) by insertion: stable, so equal keys keep their order.
InsertByInt(sorted, x) ==
    LET before == {k \in 1..Len(sorted) : IntOf(sorted[k]) <= IntOf(x)}
        n == Cardinality(before)
    IN  SubSeq(sorted, 1, n) \o <<x>> \o SubSeq(sorted, n + 1, Len(sorted))

RECURSIVE SortByInt(_)
SortByInt(l) ==
    IF l = <<>> THEN <<>>
    ELSE InsertByInt(SortByInt(SubSeq(l, 1, Len(l) - 1)), l[Len(l)])

InList(l, x) == \E k \in 1..Len(l) : l[k] = x

\* Whether an address is already in the cell's list: a test on the strings.
AddressListed(l, address) == InList(l, address)

\* The body of the loop over the store.
ListsStep(cell_addresses, param) ==
    LET cell_name == param.cell_name
        address == param.parameter_address
        d == IF cell_name \notin DOMAIN cell_addresses
             THEN Put(cell_addresses, cell_name, <<>>)
             ELSE cell_addresses
    IN  IF ~AddressListed(d[cell_name], address)
        THEN Put(d, cell_name, Append(d[cell_name], address))
        ELSE d

RECURSIVE ListsFold(_, _)
ListsFold(d, params) ==
    IF params = <<>> THEN d ELSE ListsFold(ListsStep(d, Head(params)), Tail(params))

get_cells_with_address_lists(params) ==
    LET d == ListsFold(EmptyDict, params)
    IN  [cell_name \in DOMAIN d |-> SortByInt(d[cell_name])]

\* -------------------------------------------- get_cells_with_address_ranges

Min2(a, b) == IF a <= b THEN a ELSE b

Max2(a, b) == IF a >= b THEN a ELSE b

\* The count of a cell seen again, had it been a count of records.
CountOfRecords(old, addresses) == old.count + 1

\* The count of a cell seen again: len(addresses), the distinct integers.
CountOf(old, addresses) == Cardinality(addresses)

\* The body of the loop over the store.
RangesStep(cell_ranges, param) ==
    LET cell_name == param.cell_name
        address == IntOf(param.parameter_address)
    IN  IF cell_name \notin DOMAIN cell_ranges
        THEN Put(cell_ranges, cell_name,
                 [min_address |-> address, max_address |-> address,
                  count |-> 1, addresses |-> {address}])
        ELSE LET old == cell_ranges[cell_name]
                 addresses == old.addresses \cup {address}
             IN  Put(cell_ranges, cell_name,
                     [min_address |-> Min2(old.min_address, address),
                      max_address |-> Max2(old.max_address, address),
                      count |-> CountOf(old, addresses),
                      addresses |-> addresses])

RECURSIVE RangesFold(_, _)
RangesFold(d, params) ==
    IF params = <<>> THEN d ELSE RangesFold(RangesStep(d, Head(params)), Tail(params))

get_cells_with_address_ranges(params) == RangesFold(EmptyDict, params)

\* ------------------------------------------------------------ save_to_xml

\* The catalogue, in the order it is declared.  A type id is cut into the
\* parts the attribute rules test: a family prefix, "Filter", the rest.
param_mapping ==
    <<
      [xml_type |-> <<"balanceRegister">>,
       pattern |-> <<<<"L-R Balance.Balance">>, <<"DCInpAlg145X11value">>>>,
       comment |-> "L-R Balance control"],
      [xml_type |-> <<"muteInvertRegister">>,
       pattern |-> <<<<"Soft Mute">>, <<"ExternalGainAlgSlew145X1slew_mode">>>>,
       comment |-> "Soft mute invert control"],
      [xml_type |-> <<"volumeControlRegister">>,
       pattern |-> <<<<"MasterVol">>, <<"HWGainADAU145XAlg5target">>>>,
       comment |-> "Master volume control"],
      [xml_type |-> <<"volumeLimitPiRegister">>,
       pattern |-> <<<<"VolumeLimitPi">>, <<"HWGainADAU145XAlg6target">>>>,
       comment |-> "Volume limit for Pi input"],
      [xml_type |-> <<"volumeLimitSPDIFRegister">>,
       pattern |-> <<<<"VolumeLimitSPDIF">>, <<"HWGainADAU145XAlg7target">>>>,
       comment |-> "Volume limit for SPDIF input"],
      [xml_type |-> <<"readSPDIFOnRegister">>,
       pattern |-> <<<<"Input Detection.SPDIF on read">>, <<"ReadBackAlgNewSigma3001Value">>>>,
       comment |-> "Read SPDIF on status"],
      [xml_type |-> <<"channelSelect", "ARegister">>,
       pattern |-> <<<<"Channel Select.Ch_A">>, <<"monomuxSigma300ns4index">>>>,
       comment |-> "Channel A selection"],
      [xml_type |-> <<"channelSelect", "BRegister">>,
       pattern |-> <<<<"Channel Select.Ch_B">>, <<"monomuxSigma300ns3index">>>>,
       comment |-> "Channel B selection"],
      [xml_type |-> <<"channelSelect", "CRegister">>,
       pattern |-> <<<<"Channel Select.Ch_C">>, <<"monomuxSigma300ns2index">>>>,
       comment |-> "Channel C selection"],
      [xml_type |-> <<"channelSelect", "DRegister">>,
       pattern |-> <<<<"Channel Select.Ch_D">>, <<"monomuxSigma300ns1index">>>>,
       comment |-> "Channel D selection"],
      [xml_type |-> <<"invert", "ARegister">>,
       pattern |-> <<<<"Loudspeaker EQ.Invert_A">>, <<"EQS300Invert4invert">>>>,
       comment |-> "Invert channel A"],
      [xml_type |-> <<"invert", "BRegister">>,
       pattern |-> <<<<"Loudspeaker EQ.Invert_B">>, <<"EQS300Invert3invert">>>>,
       comment |-> "Invert channel B"],
      [xml_type |-> <<"invert", "CRegister">>,
       pattern |-> <<<<"Loudspeaker EQ.Invert_C">>, <<"EQS300Invert2invert">>>>,
       comment |-> "Invert channel C"],
      [xml_type |-> <<"invert", "DRegister">>,
       pattern |-> <<<<"Loudspeaker EQ.Invert_D">>, <<"EQS300Invert1invert">>>>,
       comment |-> "Invert channel D"],
      [xml_type |-> <<"delay", "ARegister">>,
       pattern |-> <<<<"Delay_A">>, <<"DelaySigma300Alg1delay">>>>,
       comment |-> "Delay for channel A"],
      [xml_type |-> <<"delay", "BRegister">>,
       pattern |-> <<<<"Delay_B">>, <<"DelaySigma300Alg4delay">>>>,
       comment |-> "Delay for channel B"],
      [xml_type |-> <<"delay", "CRegister">>,
       pattern |-> <<<<"Delay_C">>, <<"DelaySigma300Alg3delay">>>>,
       comment |-> "Delay for channel C"],
      [xml_type |-> <<"delay", "DRegister">>,
       pattern |-> <<<<"Delay_D">>, <<"DelaySigma300Alg2delay">>>>,
       comment |-> "Delay for channel D"],
      [xml_type |-> <<"readIsDaisyChainSlaveRegister">>,
       search_pattern |-> <<"readIsDaisyChainSlave">>,
       comment |-> "Read daisy chain slave status - need to find in .params"],
      [xml_type |-> <<"sensitivitySPDIFRegister">>,
       search_pattern |-> <<"sensitivitySPDIF">>,
       comment |-> "SPDIF sensitivity - need to find in .params"],
      [xml_type |-> <<"enableSPDIFRegister">>,
       search_pattern |-> <<"enableSPDIF">>,
       comment |-> "Enable SPDIF - need to find in .params"],
      [xml_type |-> <<"tuningForkPitchRegister">>,
       search_pattern |-> <<"tuningForkPitch">>,
       comment |-> "Tuning fork pitch - need to find in .params"],
      [xml_type |-> <<"tuningForkOnRegister">>,
       search_pattern |-> <<"tuningForkOn">>,
       comment |-> "Tuning fork on - need to find in .params"],
      [xml_type |-> <<"IIR_", "A">>,
       cell_name |-> <<"Loudspeaker EQ.IIR_A">>, filter_bank |-> TRUE,
       comment |-> "IIR filter bank for channel A"],
      [xml_type |-> <<"IIR_", "B">>,
       cell_name |-> <<"Loudspeaker EQ.IIR_B">>, filter_bank |-> TRUE,
       comment |-> "IIR filter bank for channel B"],
      [xml_type |-> <<"IIR_", "C">>,
       cell_name |-> <<"Loudspeaker EQ.IIR_C">>, filter_bank |-> TRUE,
       comment |-> "IIR filter bank for channel C"],
      [xml_type |-> <<"IIR_", "D">>,
       cell_name |-> <<"Loudspeaker EQ.IIR_D">>, filter_bank |-> TRUE,
       comment |-> "IIR filter bank for channel D"],
      [xml_type |-> <<"toneControl", "LeftRegisters">>,
       cell_name |-> <<"Tone Controls.ToneControl_L">>, filter_bank |-> TRUE,
       comment |-> "Tone control filter bank for left channel"],
      [xml_type |-> <<"toneControl", "RightRegisters">>,
       cell_name |-> <<"Tone Controls.ToneControl_R">>, filter_bank |-> TRUE,
       comment |-> "Tone control filter bank for right channel"],
      [xml_type |-> <<"custom", "Filter", "RegisterBankLeft">>,
       cell_name |-> <<"Room Compensation.IIR_L">>, filter_bank |-> TRUE,
       comment |-> "Custom filter bank for left channel (room compensation)"],
      [xml_type |-> <<"custom", "Filter", "RegisterBankRight">>,
       cell_name |-> <<"Room Compensation.IIR_R">>, filter_bank |-> TRUE,
       comment |-> "Custom filter bank for right channel (room compensation)"],
      [xml_type |-> <<"levels", "ARegister">>,
       cell_pattern |-> <<"Levels">>, param_pattern |-> "HWGainADAU145XAlg.*target", channel |-> "A",
       comment |-> "Level control for channel A - need to identify specific parameter"],
      [xml_type |-> <<"levels", "BRegister">>,
       cell_pattern |-> <<"Levels">>, param_pattern |-> "HWGainADAU145XAlg.*target", channel |-> "B",
       comment |-> "Level control for channel B - need to identify specific parameter"],
      [xml_type |-> <<"levels", "CRegister">>,
       cell_pattern |-> <<"Levels">>, param_pattern |-> "HWGainADAU145XAlg.*target", channel |-> "C",
       comment |-> "Level control for channel C - need to identify specific parameter"],
      [xml_type |-> <<"levels", "DRegister">>,
       cell_pattern |-> <<"Levels">>, param_pattern |-> "HWGainADAU145XAlg.*target", channel |-> "D",
       comment |-> "Level control for channel D - need to identify specific parameter"]
    >>

\* str.lower() of the words of this model; every other character of the model
\* is its own lower case.
LowerWords ==
    { <<"EnableSPDIF", "enablespdif">>, <<"enableSPDIF", "enablespdif">>,
      <<"readIsDaisyChainSlave", "readisdaisychainslave">>,
      <<"sensitivitySPDIF", "sensitivityspdif">>,
      <<"tuningForkPitch", "tuningforkpitch">>,
      <<"tuningForkOn", "tuningforkon">>,
      <<"Delay_A", "delay_a">>,
      <<"DelaySigma300Alg1delay", "delaysigma300alg1delay">>,
      <<"Loudspeaker EQ.IIR_A", "loudspeaker eq.iir_a">>,
      <<"Input Detection.SPDIF on read", "input detection.spdif on read">>,
      <<"ReadBackAlgNewSigma3001Value", "readbackalgnewsigma3001value">>,
      <<"Channel Select.Ch_A", "channel select.ch_a">>,
      <<"monomuxSigma300ns4index", "monomuxsigma300ns4index">>,
      <<"MasterVol", "mastervol">>,
      <<"HWGainADAU145XAlg5target", "hwgainadau145xalg5target">> }

LowerChar(c) ==
    IF \E w \in LowerWords : w[1] = c
    THEN (CHOOSE w \in LowerWords : w[1] = c)[2]
    ELSE c

Lower(s) == [k \in 1..Len(s) |-> LowerChar(s[k])]

\* needle in hay, of two strings.
Contains(hay, needle) ==
    \E i \in 1..(Len(hay) - Len(needle) + 1) :
        SubSeq(hay, i, i + Len(needle) - 1) = needle

\* A lookup table that keeps the first record of a pair.
RECURSIVE LookupFoldFirst(_, _)
LookupFoldFirst(d, params) ==
    IF params = <<>> THEN d
    ELSE LookupFoldFirst(PutIfAbsent(d, <<Head(params).cell_name, Head(params).parameter_name>>,
                                     Head(params).parameter_address),
                         Tail(params))

\* param_lookup: the last record of a pair overwrites the earlier ones.
RECURSIVE LookupFold(_, _)
LookupFold(d, params) ==
    IF params = <<>> THEN d
    ELSE LookupFold(Put(d, <<Head(params).cell_name, Head(params).parameter_name>>,
                        Head(params).parameter_address),
                    Tail(params))

build_param_lookup(params) == LookupFold(EmptyDict, params)

\* What get_param_address returns: None, or a string.
AddrNone == [some |-> FALSE, val |-> <<>>]

Addr(v) == [some |-> TRUE, val |-> v]

\* A lookup that is content with the cell name of the pair.
DirectAddressByCell(param_lookup, pattern) ==
    IF \E key \in DOMAIN param_lookup : key[1] = pattern[1]
    THEN Addr(param_lookup[CHOOSE key \in DOMAIN param_lookup : key[1] = pattern[1]])
    ELSE AddrNone

\* param_lookup.get((cell_name, param_name))
DirectAddress(param_lookup, pattern) ==
    IF pattern \in DOMAIN param_lookup THEN Addr(param_lookup[pattern]) ELSE AddrNone

\* The filter_bank branch: f"{start_addr}/{count}", or None by falling through.
FilterBankAddress(cell_ranges, cell_name) ==
    IF cell_name \in DOMAIN cell_ranges
    THEN Addr(StrOf(cell_ranges[cell_name].min_address) \o <<"/">>
                  \o StrOf(cell_ranges[cell_name].count))
    ELSE AddrNone

\* The records the search loop finds: it passes over each and keeps none.
SearchHits(params, pattern) ==
    {k \in 1..Len(params) :
        \/ Contains(Lower(params[k].cell_name), Lower(pattern))
        \/ Contains(Lower(params[k].parameter_name), Lower(pattern))}

\* A search branch that returns the address of the first record found.
SearchAddressFirstHit(params, pattern) ==
    IF SearchHits(params, pattern) = {} THEN AddrNone
    ELSE Addr(params[CHOOSE k \in SearchHits(params, pattern) :
                        \A m \in SearchHits(params, pattern) : k <= m].parameter_address)

\* The search_pattern branch: None whatever the loop finds.
SearchAddress(params, pattern) ==
    IF SearchHits(params, pattern) = {} THEN AddrNone ELSE AddrNone

\* A cell_pattern branch that returns None.
LevelsAddressNone == AddrNone

\* The cell_pattern branch: the literal "UNKNOWN".
LevelsAddress == Addr(<<"UNKNOWN">>)

\* get_param_address, with the variables it closes over: self.parameters,
\* param_lookup and cell_ranges.
get_param_address(params, param_lookup, cell_ranges, mapping_info) ==
    IF "pattern" \in DOMAIN mapping_info
    THEN DirectAddress(param_lookup, mapping_info.pattern)
    ELSE IF "filter_bank" \in DOMAIN mapping_info
    THEN FilterBankAddress(cell_ranges, mapping_info.cell_name)
    ELSE IF "search_pattern" \in DOMAIN mapping_info
    THEN SearchAddress(params, mapping_info.search_pattern)
    ELSE IF "cell_pattern" \in DOMAIN mapping_info
    THEN LevelsAddress
    ELSE AddrNone

\* An argument not given (None), for card_type and version: as falsy as ''.
NoArg == <<>>

card_metadata ==
    (<<"beocreate">> :>
         [profileName |-> <<"Beocreate Universal">>,
          programID |-> <<"beocreate-universal">>,
          modelName |-> <<"Beocreate 4-Channel Amplifier">>,
          modelID |-> <<"beocreate-4ca-mk1">>,
          defaultVersion |-> <<"11">>])
    @@ (<<"dacdsp">> :>
         [profileName |-> <<"DAC+ DSP Universal">>,
          programID |-> <<"dacdsp-universal">>,
          modelName |-> <<"DAC+ DSP">>,
          modelID |-> <<"hifiberry-dacdsp">>,
          defaultVersion |-> <<"15">>])
    @@ (<<"dspaddon">> :>
         [profileName |-> <<"DSP add-on">>,
          programID |-> <<"dsp-addon">>,
          modelName |-> <<"DSP add-on">>,
          modelID |-> <<"dsp-addon">>,
          defaultVersion |-> <<"14">>])

\* A version that is always the default, whatever override is given.
OrElseDefault(version, default) == default

\* "version or default": an empty or absent version gives the default.
OrElse(version, default) == IF version # <<>> THEN version ELSE default

\* The names and the version of the preamble.
Metadata(card_type, version) ==
    IF card_type # NoArg /\ card_type \in DOMAIN card_metadata
    THEN [profile_name |-> card_metadata[card_type].profileName,
          program_id |-> card_metadata[card_type].programID,
          model_name |-> card_metadata[card_type].modelName,
          model_id |-> card_metadata[card_type].modelID,
          profile_version |-> OrElse(version, card_metadata[card_type].defaultVersion)]
    ELSE [profile_name |-> <<"NAME">>, program_id |-> <<"NAME">>,
          model_name |-> <<"NAME">>, model_id |-> <<"NAME">>,
          profile_version |-> OrElse(version, <<"0">>)]

\* <metadata type="..." attrs>value</metadata>
Element(type, attrs, value) ==
    [kind |-> "metadata", type |-> type, attrs |-> attrs, text |-> value]

\* <!-- type: comment - NOT MAPPED -->
NotMapped(type, comment) ==
    [kind |-> "comment", type |-> type, attrs |-> <<>>,
     text |-> <<comment, " - NOT MAPPED">>]

Storable == <<"storable=\"yes\"">>

Preamble(card_type, version) ==
    LET m == Metadata(card_type, version)
    IN  << Element(<<"sampleRate">>, <<>>, <<"48000">>),
           Element(<<"profileName">>, <<>>, m.profile_name),
           Element(<<"profileVersion">>, <<>>, m.profile_version),
           Element(<<"programID">>, <<>>, m.program_id),
           Element(<<"modelName">>, <<"modelID=">> \o m.model_id, m.model_name),
           Element(<<"checksum">>, <<>>, <<"CHECKSUM">>),
           Element(<<"spdifTXUserDataSource">>, Storable, <<"63135">>),
           Element(<<"spdifTXUserDataL0">>, Storable, <<"63135">>),
           Element(<<"spdifTXUserDataL1">>, Storable, <<"63168">>),
           Element(<<"spdifTXUserDataL2">>, Storable, <<"63169">>),
           Element(<<"spdifTXUserDataL3">>, Storable, <<"63170">>),
           Element(<<"spdifTXUserDataL4">>, Storable, <<"63171">>),
           Element(<<"spdifTXUserDataL5">>, Storable, <<"63172">>),
           Element(<<"spdifTXUserDataR0">>, Storable, <<"63173">>),
           Element(<<"spdifTXUserDataR1">>, Storable, <<"63185">>),
           [kind |-> "comment", type |-> <<>>, attrs |-> <<>>,
            text |-> <<"DSP parameters from .params file">>] >>

static_params ==
    << <<<<"canBecomeDaisyChainSlaveRegister">>, <<"4833">>>>,
       <<<<"muteRegister">>, <<"4834">>>>,
       <<<<"enableSPDIFTransmitterRegister">>, <<"4835">>>>,
       <<<<"disableSPDIFTransmitterAtMuteRegister">>, <<"4836">>>> >>

\* The line of one static parameter: its third member, when it has one,
\* is its attributes.
StaticLine(param_info_) ==
    LET extra_attrs == IF Len(param_info_) > 2 THEN param_info_[3] ELSE <<>>
    IN  Element(param_info_[1], extra_attrs, param_info_[2])

AllowList ==
    { <<"volumeControlRegister">>, <<"volumeLimitPiRegister">>,
      <<"volumeLimitSPDIFRegister">>, <<"balanceRegister">>,
      <<"muteInvertRegister">>, <<"enableSPDIFRegister">> }

HasPart(xml_type, part) == \E k \in 1..Len(xml_type) : xml_type[k] = part

\* Attributes whose last branch is storable="yes" for every remaining type id.
AttrsOfStorableElse(xml_type) ==
    IF StartsWith(xml_type, "channelSelect")
    THEN <<"channels=\"left,right,mono,side\"", "multiplier=\"1\"", "storable=\"yes\"">>
    ELSE IF StartsWith(xml_type, "delay")
    THEN <<"maxDelay=\"2000\"", "storable=\"yes\"">>
    ELSE Storable

\* The attributes of a resolved entry, from its type id.
AttrsOf(xml_type) ==
    IF StartsWith(xml_type, "channelSelect")
    THEN <<"channels=\"left,right,mono,side\"", "multiplier=\"1\"", "storable=\"yes\"">>
    ELSE IF StartsWith(xml_type, "delay")
    THEN <<"maxDelay=\"2000\"", "storable=\"yes\"">>
    ELSE IF \/ xml_type \in AllowList
            \/ StartsWith(xml_type, "invert")
            \/ StartsWith(xml_type, "levels")
            \/ HasPart(xml_type, "Filter")
            \/ StartsWith(xml_type, "IIR_")
            \/ HasPart(xml_type, "toneControl")
    THEN Storable
    ELSE <<>>

\* The line of one catalogue entry: a value element when get_param_address
\* returns a string, a comment when it returns None.
CatalogueLine(address, mapping_info) ==
    IF address.some
    THEN Element(mapping_info.xml_type, AttrsOf(mapping_info.xml_type), address.val)
    ELSE NotMapped(mapping_info.xml_type, mapping_info.comment)

\* The address each catalogue entry resolves to, in catalogue order.
ResolveAll(params) ==
    LET param_lookup == build_param_lookup(params)
        cell_ranges == get_cells_with_address_ranges(params)
    IN  [k \in 1..Len(param_mapping) |->
            get_param_address(params, param_lookup, cell_ranges, param_mapping[k])]

\* A descriptor that leaves out the catalogue entries that do not resolve.
SaveToXmlResolvedOnly(params, card_type, version) ==
    LET resolved == ResolveAll(params)
        lines == [k \in 1..Len(param_mapping) |->
                     CatalogueLine(resolved[k], param_mapping[k])]
        IsValue(l) == l.kind = "metadata"
    IN  Preamble(card_type, version)
            \o [k \in 1..Len(static_params) |-> StaticLine(static_params[k])]
            \o SelectSeq(lines, IsValue)

\* xml_lines of save_to_xml.
save_to_xml(params, card_type, version) ==
    LET resolved == ResolveAll(params)
    IN  Preamble(card_type, version)
            \o [k \in 1..Len(static_params) |-> StaticLine(static_params[k])]
            \o [k \in 1..Len(param_mapping) |->
                   CatalogueLine(resolved[k], param_mapping[k])]

\* ------------------------------------------------ results of the operations

NotCalled == [called |-> FALSE, ret |-> <<>>]

Returned(v) == [called |-> TRUE, ret |-> v]

\* The input file: absent (or unreadable), or holding a text.
NoFile == [exists |-> FALSE, text |-> <<>>]

FileOf(t) == [exists |-> TRUE, text |-> t]

NoQuery == [op |-> "none", ret |-> <<>>]

\* No run of main: no arguments, nothing opened, written or printed.
NoRun ==
    /\ args = None /\ pc = "none"
    /\ io = <<>> /\ outfile = NoFile /\ stdout = <<>>

\* The k-th smallest member of a set of numbers.
Kth(S, k) == CHOOSE x \in S : Cardinality({y \in S : y < x}) = k - 1

\* All sequences over S of a length in lo..hi.
SeqsOver(S, lo, hi) == UNION {[1..n -> S] : n \in lo..hi}

\* '\n'.join(lines)
RECURSIVE JoinLines(_)
JoinLines(lines) ==
    IF lines = <<>> THEN <<>>
    ELSE IF Len(lines) = 1 THEN lines[1]
    ELSE lines[1] \o <<NL>> \o JoinLines(Tail(lines))

\* ------------------------------------------- SpecSplit: _split_into_blocks

\* The characters of the texts split: a letter, a blank and a newline.
SplitAlphabet == {"a", SP, NL}

SplitInit ==
    /\ text \in SeqsOver(SplitAlphabet, 0, MaxLen)
    /\ blocks = NotCalled
    /\ file = NoFile /\ content = NoFile /\ parameters = <<>> /\ out = NoQuery
    /\ block = <<>> /\ param_info = NotCalled
    /\ NoRun

SplitCall ==
    /\ ~blocks.called
    /\ blocks' = Returned(_split_into_blocks(text))
    /\ UNCHANGED <<file, content, parameters, out, text, block, param_info>>
    /\ UNCHANGED mainVars

SplitNext == SplitCall

SpecSplit == SplitInit /\ [][SplitNext]_vars

\* The positions of the text that hold no whitespace.
Inked(s) == {p \in 1..Len(s) : ~IsSpace(s[p])}

\* Whether at least two consecutive blank lines (three newlines with only
\* whitespace between them) lie strictly between positions p and q.
BlankRunBetween(s, p, q) == Cardinality(NewlinesIn(s, p + 1, q - 1)) >= 3

\* Whether only a single blank line (exactly two newlines) lies between p and q.
OneBlankLineBetween(s, p, q) == Cardinality(NewlinesIn(s, p + 1, q - 1)) = 2

\* The non-blank positions where a block must start, and where it must end.
BlockStarts(s) ==
    {p \in Inked(s) : \A q \in Inked(s) :
        q < p => \E r \in Inked(s) : q <= r /\ r < p /\
                     (\A m \in Inked(s) : ~(r < m /\ m < p)) /\ BlankRunBetween(s, r, p)}

BlockEnds(s) ==
    {p \in Inked(s) : \A q \in Inked(s) :
        q > p => \E r \in Inked(s) : p < r /\ r <= q /\
                     (\A m \in Inked(s) : ~(p < m /\ m < r)) /\ BlankRunBetween(s, p, r)}

BlockLines ==
    { <<CellNamePrefix, SP, EQ, SP, "A">>,
      <<CellNamePrefix, EQ, "B">>,
      <<CellNamePrefix>>,
      <<ParamNamePrefix, SP, EQ, SP, "p">>,
      <<SP, ParamNamePrefix, SP, EQ, "q", SP>>,
      <<ParamAddrPrefix, SP, EQ, SP, "5">>,
      <<ParamAddrPrefix, SP, EQ, SP, "0", "7", "x">>,
      <<ParamAddrPrefix, SP, EQ, SP, "x">> }

BlockInit ==
    /\ \E lines \in SeqsOver(BlockLines, 1, MaxLines) : block = JoinLines(lines)
    /\ param_info = NotCalled
    /\ file = NoFile /\ content = NoFile /\ parameters = <<>> /\ out = NoQuery
    /\ text = <<>> /\ blocks = NotCalled
    /\ NoRun

BlockCall ==
    /\ ~param_info.called
    /\ param_info' = Returned(_parse_block(block))
    /\ UNCHANGED <<file, content, parameters, out, text, blocks, block>>
    /\ UNCHANGED mainVars

BlockNext == BlockCall

SpecBlock == BlockInit /\ [][BlockNext]_vars

\* The three fields: the key of the record and the prefix of its line.
Fields ==
    { [key |-> "cell_name", prefix |-> CellNamePrefix],
      [key |-> "parameter_name", prefix |-> ParamNamePrefix],
      [key |-> "parameter_address", prefix |-> ParamAddrPrefix] }

\* The lines of a block, each stripped.
LinesOf(b) == LET ls == SplitOn(b, NL) IN [k \in 1..Len(ls) |-> Strip(ls[k])]

\* The lines of a block that begin with the field's prefix.
PrefixLines(b, f) ==
    LET ls == LinesOf(b) IN {k \in 1..Len(ls) : StartsWith(ls[k], f.prefix)}

\* What the field's pattern takes from one line.
LineValue(line, f) ==
    IF f.key = "parameter_address" THEN DigitsSearch(line, f.prefix)
    ELSE TextSearch(line, f.prefix)

\* The lines that begin with the field's prefix and match the field's pattern.
MatchingLines(b, f) ==
    LET ls == LinesOf(b)
    IN  {k \in 1..Len(ls) : StartsWith(ls[k], f.prefix) /\ LineValue(ls[k], f).matched}

Last(S) == CHOOSE k \in S : \A m \in S : m <= k

First(S) == CHOOSE k \in S : \A m \in S : k <= m

\* C2 as stated: when a block holds several lines that begin with a field's
\* prefix, the record's value of the field is the one of the last such line.
C2_LastPrefixLineWins ==
    (param_info.called /\ param_info.ret # None) =>
        \A f \in Fields :
            Cardinality(PrefixLines(block, f)) > 1 =>
                LET m == LineValue(LinesOf(block)[Last(PrefixLines(block, f))], f)
                IN  m.matched /\ param_info.ret[f.key] = Strip(m.group)

\* C2 amended: when a block holds several lines that begin with a field's
\* prefix, the record's value of the field is the one of the last such line
\* that matches the field's pattern (prefix, "=", then a value: any text for
\* the names, leading digits for the address), whatever the order of the lines.
C2_LastMatchingLineWins ==
    (param_info.called /\ param_info.ret # None) =>
        \A f \in Fields :
            Cardinality(PrefixLines(block, f)) > 1 =>
                /\ MatchingLines(block, f) # {}
                /\ param_info.ret[f.key] =
                       Strip(LineValue(LinesOf(block)[Last(MatchingLines(block, f))], f).group)

\* C2 witness: a record came from a block with two matching lines of one
\* field that give different values, and it holds the later one.
C2_Witness ==
    /\ param_info.called /\ param_info.ret # None
    /\ \E f \in Fields :
           /\ Cardinality(MatchingLines(block, f)) > 1
           /\ LineValue(LinesOf(block)[First(MatchingLines(block, f))], f).group
                  # LineValue(LinesOf(block)[Last(MatchingLines(block, f))], f).group
           /\ param_info.ret[f.key] =
                  LineValue(LinesOf(block)[Last(MatchingLines(block, f))], f).group

\* ------------------------------------------------- Spec: the parser object

\* The (cell name, parameter name) pairs of the input: the pair of the
\* catalogue's delayARegister; its cell with another parameter, one that holds
\* the search pattern of enableSPDIFRegister in other case; and the cell of the
\* filter bank IIR_A.
NamePairs ==
    { <<<<"Delay_A">>, <<"DelaySigma300Alg1delay">>>>,
      <<<<"Delay_A">>, <<"EnableSPDIF", "x">>>>,
      <<<<"Loudspeaker EQ.IIR_A">>, <<"EnableSPDIF", "x">>>> }

\* The addresses of the input: two spellings of five, and seven.
Addresses == {<<"5">>, <<"0", "5">>, <<"7">>}

CellLine(c) == <<CellNamePrefix, SP, EQ, SP>> \o c

ParamLine(n) == <<ParamNamePrefix, SP, EQ, SP>> \o n

AddrLine(a) == <<ParamAddrPrefix, SP, EQ, SP>> \o a

\* The blocks with all three lines well formed.
GoodBlocks ==
    {JoinLines(<<CellLine(np[1]), ParamLine(np[2]), AddrLine(a)>>) :
        np \in NamePairs, a \in Addresses}

\* Blocks that give no record: one without an address line, and one whose
\* address line holds no number.
OddBlocks ==
    { JoinLines(<<CellLine(<<"Delay_A">>), ParamLine(<<"DelaySigma300Alg1delay">>)>>),
      JoinLines(<<CellLine(<<"Loudspeaker EQ.IIR_A">>), ParamLine(<<"EnableSPDIF", "x">>),
                  AddrLine(<<"x">>)>>) }

FileBlocks == GoodBlocks \cup OddBlocks

\* Two blank lines: what separates the blocks of the input file.
BlockSep == <<NL, NL, NL>>

CardTypes == {NoArg, <<"beocreate">>}

Versions == {NoArg, <<"12">>}

Init ==
    /\ file = NoFile
    /\ content = NoFile
    /\ parameters = <<>>
    /\ out = NoQuery
    /\ text = <<>> /\ blocks = NotCalled
    /\ block = <<>> /\ param_info = NotCalled
    /\ NoRun

\* The environment writes one more block to the input file.
WriteBlock ==
    /\ file.exists => Len(_split_into_blocks(file.text)) < MaxBlocks
    /\ \E b \in FileBlocks :
           file' = FileOf(IF file.exists THEN file.text \o BlockSep \o b ELSE b)
    /\ UNCHANGED <<content, parameters, out, text, blocks, block, param_info>>
    /\ UNCHANGED mainVars

\* parse_file when open() and read() succeed.
ParseFile ==
    /\ file.exists
    /\ content' = file
    /\ parameters' = Reset(parameters) \o ParseContent(file.text)
    /\ out' = [op |-> "parse_file", ret |-> parameters']
    /\ UNCHANGED <<file, text, blocks, block, param_info>>
    /\ UNCHANGED mainVars

\* parse_file when open() or read() raises: the file is missing, or cannot be
\* read.  The store was emptied before the try.
ParseFileError ==
    /\ content' = NoFile
    /\ parameters' = Reset(parameters)
    /\ out' = [op |-> "parse_file", ret |-> parameters']
    /\ UNCHANGED <<file, text, blocks, block, param_info>>
    /\ UNCHANGED mainVars

GetAddressLists ==
    /\ out' = [op |-> "get_cells_with_address_lists",
               ret |-> get_cells_with_address_lists(parameters)]
    /\ UNCHANGED <<file, content, parameters, text, blocks, block, param_info>>
    /\ UNCHANGED mainVars

GetAddressRanges ==
    /\ out' = [op |-> "get_cells_with_address_ranges",
               ret |-> get_cells_with_address_ranges(parameters)]
    /\ UNCHANGED <<file, content, parameters, text, blocks, block, param_info>>
    /\ UNCHANGED mainVars

SaveToXml ==
    /\ \E card_type \in CardTypes, version \in Versions :
           out' = [op |-> "save_to_xml",
                   ret |-> save_to_xml(parameters, card_type, version)]
    /\ UNCHANGED <<file, content, parameters, text, blocks, block, param_info>>
    /\ UNCHANGED mainVars

Next ==
    \/ WriteBlock
    \/ ParseFile
    \/ ParseFileError
    \/ GetAddressLists
    \/ GetAddressRanges
    \/ SaveToXml

Spec == Init /\ [][Next]_vars

\* ---------------------------------------------------------------- claims

\* The blocks of the text the last parse_file read.
ReadBlocks == _split_into_blocks(content.text)

\* Whether a block holds, for each of the three fields, a line that begins
\* with the field's prefix.
HasAllPrefixes(b) == \A f \in Fields : PrefixLines(b, f) # {}

\* Whether a block holds, for each of the three fields, a line that begins
\* with the field's prefix and matches the field's pattern.
HasAllFields(b) == \A f \in Fields : MatchingLines(b, f) # {}

\* The value of a field in a block: the one of its last matching line.
FieldValue(b, f) ==
    Strip(LineValue(LinesOf(b)[Last(MatchingLines(b, f))], f).group)

\* C1 as stated: the number of records parse_file stores equals the number of
\* blocks that hold a Cell Name line, a Parameter Name line and a Parameter
\* Address line.
C1_CountsBlocksWithThreeLines ==
    content.exists =>
        LET bs == ReadBlocks
        IN  Len(parameters) = Cardinality({k \in 1..Len(bs) : HasAllPrefixes(bs[k])})

\* C1 amended: the number of records parse_file stores equals the number of
\* blocks in which each of the three prefixes starts a line that matches its
\* pattern (prefix, "=", then a value: any text for the names, leading digits
\* for the address); every other block gives no record and does not stop the
\* later blocks, and the records are in the order of their blocks.
C1_OneRecordPerCompleteBlock ==
    content.exists =>
        LET bs == ReadBlocks
            complete == {k \in 1..Len(bs) : HasAllFields(bs[k])}
        IN  /\ Len(parameters) = Cardinality(complete)
            /\ \A i \in 1..Len(parameters) :
                   \A f \in Fields :
                       parameters[i][f.key] = FieldValue(bs[Kth(complete, i)], f)

\* C1 witness: parse_file read a text whose first block lacks a field and
\* whose second block has all three, and stored the one record.
C1_Witness ==
    /\ content.exists
    /\ out.op = "parse_file"
    /\ Len(parameters) = 1
    /\ LET bs == ReadBlocks
       IN  Len(bs) = 2 /\ ~HasAllFields(bs[1]) /\ HasAllFields(bs[2])

\* The number of lines before the catalogue's lines in the descriptor.
CatalogueOffset == Len(Preamble(NoArg, NoArg)) + Len(static_params)

\* The descriptor's line of the k-th catalogue entry.
EntryLine(xml, k) == xml[CatalogueOffset + k]

IsDirect(e) == "pattern" \in DOMAIN e

IsFilterBank(e) == "filter_bank" \in DOMAIN e

IsSearch(e) == "search_pattern" \in DOMAIN e

IsChannelPattern(e) == "cell_pattern" \in DOMAIN e

Entries == 1..Len(param_mapping)

\* The records of the store with the cell name and parameter name of a pair.
RecordsOfPair(pair) ==
    {i \in 1..Len(parameters) :
        parameters[i].cell_name = pair[1] /\ parameters[i].parameter_name = pair[2]}

\* The records of the store of a cell.
RecordsOfCell(cell_name) ==
    {i \in 1..Len(parameters) : parameters[i].cell_name = cell_name}

\* The distinct integer addresses of a cell in the store.
IntsOfCell(cell_name) ==
    {IntOf(parameters[i].parameter_address) : i \in RecordsOfCell(cell_name)}

SetMin(S) == CHOOSE m \in S : \A x \in S : m <= x

SetMax(S) == CHOOSE m \in S : \A x \in S : m >= x

\* C4: for a Direct catalogue entry the descriptor carries the address of the
\* last record, in store order, with the entry's (cell name, parameter name).
C4_DirectUsesLastRecord ==
    out.op = "save_to_xml" =>
        \A k \in Entries :
            (IsDirect(param_mapping[k]) /\ RecordsOfPair(param_mapping[k].pattern) # {}) =>
                /\ EntryLine(out.ret, k).kind = "metadata"
                /\ EntryLine(out.ret, k).text =
                       parameters[Last(RecordsOfPair(param_mapping[k].pattern))].parameter_address

\* C4 witness: the pair of a Direct entry is in two blocks with different
\* addresses, and the descriptor written carries the later one.
C4_Witness ==
    /\ out.op = "save_to_xml"
    /\ \E k \in Entries :
           /\ IsDirect(param_mapping[k])
           /\ Cardinality(RecordsOfPair(param_mapping[k].pattern)) = 2
           /\ parameters[First(RecordsOfPair(param_mapping[k].pattern))].parameter_address
                  # parameters[Last(RecordsOfPair(param_mapping[k].pattern))].parameter_address
           /\ EntryLine(out.ret, k).text =
                  parameters[Last(RecordsOfPair(param_mapping[k].pattern))].parameter_address

\* The members of a list, as a set.
Range(l) == {l[k] : k \in 1..Len(l)}

\* C5: for every cell, the address list and the address range agree: the
\* numeric minimum of the list is min_address, the numeric maximum is
\* max_address, and the number of distinct entries of the list is count.
C5_ListsAgreeWithRanges ==
    out.op = "get_cells_with_address_lists" =>
        \A cell_name \in DOMAIN out.ret :
            LET l == out.ret[cell_name]
                r == get_cells_with_address_ranges(parameters)[cell_name]
            IN  /\ SetMin({IntOf(a) : a \in Range(l)}) = r.min_address
                /\ SetMax({IntOf(a) : a \in Range(l)}) = r.max_address
                /\ Cardinality(Range(l)) = r.count

\* C6: every cell's address list is strictly ascending by integer value: no
\* two entries denote the same integer and each is smaller than the next.
C6_ListsStrictlyAscending ==
    out.op = "get_cells_with_address_lists" =>
        \A cell_name \in DOMAIN out.ret :
            \A k \in 1..(Len(out.ret[cell_name]) - 1) :
                IntOf(out.ret[cell_name][k]) < IntOf(out.ret[cell_name][k + 1])

\* C7: for a FilterBank entry whose cell has a record in the store, the
\* descriptor's value is "<min>/<count>": the smallest address of the cell and
\* the number of its distinct integer addresses, contiguous or not.
C7_FilterBankIsMinAndCount ==
    out.op = "save_to_xml" =>
        \A k \in Entries :
            (IsFilterBank(param_mapping[k])
                 /\ RecordsOfCell(param_mapping[k].cell_name) # {}) =>
                LET ints == IntsOfCell(param_mapping[k].cell_name)
                IN  /\ EntryLine(out.ret, k).kind = "metadata"
                    /\ EntryLine(out.ret, k).text =
                           StrOf(SetMin(ints)) \o <<"/">> \o StrOf(Cardinality(ints))

\* C7 witness: the cell of a FilterBank entry has two records that spell one
\* address in two ways, and the descriptor written counts it once.
C7_Witness ==
    /\ out.op = "save_to_xml"
    /\ \E k \in Entries :
           /\ IsFilterBank(param_mapping[k])
           /\ Cardinality(RecordsOfCell(param_mapping[k].cell_name)) = 2
           /\ Cardinality({parameters[i].parameter_address :
                               i \in RecordsOfCell(param_mapping[k].cell_name)}) = 2
           /\ Cardinality(IntsOfCell(param_mapping[k].cell_name)) = 1
           /\ EntryLine(out.ret, k).text = <<"5", "/", "1">>

\* Whether the store holds what a Direct or FilterBank entry looks up.
TargetPresent(e) ==
    IF IsDirect(e) THEN RecordsOfPair(e.pattern) # {}
    ELSE RecordsOfCell(e.cell_name) # {}

\* C8: a Direct or FilterBank entry is a value element if and only if its
\* target is in the store; when it is not, the entry's line is a comment that
\* names the type id, no value element has that type id, and the descriptor
\* still has all its lines.
C8_ValueIffTargetPresent ==
    out.op = "save_to_xml" =>
        /\ Len(out.ret) = CatalogueOffset + Len(param_mapping)
        /\ \A k \in Entries :
               (IsDirect(param_mapping[k]) \/ IsFilterBank(param_mapping[k])) =>
                   /\ EntryLine(out.ret, k).kind = "metadata"
                          <=> TargetPresent(param_mapping[k])
                   /\ ~TargetPresent(param_mapping[k]) =>
                          /\ EntryLine(out.ret, k).kind = "comment"
                          /\ EntryLine(out.ret, k).type = param_mapping[k].xml_type
                          /\ \A n \in 1..Len(out.ret) :
                                 out.ret[n].kind = "metadata" =>
                                     out.ret[n].type # param_mapping[k].xml_type

\* C8 witness: the store holds the cell of a Direct entry but not its pair,
\* and the cell of a FilterBank entry; the descriptor written has a comment
\* for the first and a value element for the second.
C8_Witness ==
    /\ out.op = "save_to_xml"
    /\ \E k, j \in Entries :
           /\ IsDirect(param_mapping[k])
           /\ RecordsOfCell(param_mapping[k].pattern[1]) # {}
           /\ RecordsOfPair(param_mapping[k].pattern) = {}
           /\ EntryLine(out.ret, k).kind = "comment"
           /\ IsFilterBank(param_mapping[j])
           /\ RecordsOfCell(param_mapping[j].cell_name) # {}
           /\ EntryLine(out.ret, j).kind = "metadata"

\* C9: every Search entry is rendered as a NOT MAPPED comment, for every
\* store, also one with a record whose names hold the search pattern.
C9_SearchIsNeverMapped ==
    out.op = "save_to_xml" =>
        \A k \in Entries :
            IsSearch(param_mapping[k]) =>
                EntryLine(out.ret, k) =
                    NotMapped(param_mapping[k].xml_type, param_mapping[k].comment)

\* C9 witness: a record's parameter name holds the search pattern of an entry
\* in other case, and the descriptor written has the entry's comment.
C9_Witness ==
    /\ out.op = "save_to_xml"
    /\ \E k \in Entries :
           /\ IsSearch(param_mapping[k])
           /\ \E i \in 1..Len(parameters) :
                  /\ Contains(Lower(parameters[i].parameter_name),
                              Lower(param_mapping[k].search_pattern))
                  /\ ~Contains(parameters[i].parameter_name,
                               param_mapping[k].search_pattern)
           /\ EntryLine(out.ret, k).kind = "comment"

MaxRecords == 2

\* The (cell name, parameter name) pairs of the stores: the pairs of the
\* catalogue's delayARegister, readSPDIFOnRegister, channelSelectARegister and
\* volumeControlRegister, a parameter of the filter bank IIR_A, and a pair the
\* catalogue does not name.
XmlPairs ==
    { <<<<"Delay_A">>, <<"DelaySigma300Alg1delay">>>>,
      <<<<"Input Detection.SPDIF on read">>, <<"ReadBackAlgNewSigma3001Value">>>>,
      <<<<"Channel Select.Ch_A">>, <<"monomuxSigma300ns4index">>>>,
      <<<<"MasterVol">>, <<"HWGainADAU145XAlg5target">>>>,
      <<<<"Loudspeaker EQ.IIR_A">>, <<"EnableSPDIF", "x">>>>,
      <<<<"Delay_A">>, <<"EnableSPDIF", "x">>>> }

XmlAddresses == {<<"5">>, <<"7">>}

\* The records _parse_block gives for blocks of these pairs and addresses.
XmlRecords ==
    {[cell_name |-> np[1], parameter_name |-> np[2], parameter_address |-> a] :
        np \in XmlPairs, a \in XmlAddresses}

\* card_type: not given, the three presets, and an identifier that is none.
XmlCardTypes == {NoArg, <<"beocreate">>, <<"dacdsp">>, <<"dspaddon">>, <<"other">>}

XmlVersions == {NoArg, <<"12">>}

XmlInit ==
    /\ parameters \in SeqsOver(XmlRecords, 0, MaxRecords)
    /\ args \in [card_type : XmlCardTypes, version : XmlVersions]
    /\ out = NoQuery
    /\ file = NoFile /\ content = NoFile
    /\ text = <<>> /\ blocks = NotCalled
    /\ block = <<>> /\ param_info = NotCalled
    /\ pc = "none" /\ io = <<>> /\ outfile = NoFile /\ stdout = <<>>

\* save_to_xml(None, card_type, version) on the store.
XmlCall ==
    /\ out = NoQuery
    /\ out' = [op |-> "save_to_xml",
               ret |-> save_to_xml(parameters, args.card_type, args.version)]
    /\ UNCHANGED <<file, content, parameters, text, blocks, block, param_info>>
    /\ UNCHANGED mainVars

XmlNext == XmlCall

SpecXml == XmlInit /\ [][XmlNext]_vars

\* The type ids of the preamble's value elements, in order.
PreambleTypes ==
    << <<"sampleRate">>, <<"profileName">>, <<"profileVersion">>, <<"programID">>,
       <<"modelName">>, <<"checksum">>, <<"spdifTXUserDataSource">>,
       <<"spdifTXUserDataL0">>, <<"spdifTXUserDataL1">>, <<"spdifTXUserDataL2">>,
       <<"spdifTXUserDataL3">>, <<"spdifTXUserDataL4">>, <<"spdifTXUserDataL5">>,
       <<"spdifTXUserDataR0">>, <<"spdifTXUserDataR1">> >>

\* The static-fixed entries: type id and literal value, in order.
StaticEntries ==
    << [type |-> <<"canBecomeDaisyChainSlaveRegister">>, value |-> <<"4833">>],
       [type |-> <<"muteRegister">>, value |-> <<"4834">>],
       [type |-> <<"enableSPDIFTransmitterRegister">>, value |-> <<"4835">>],
       [type |-> <<"disableSPDIFTransmitterAtMuteRegister">>, value |-> <<"4836">>] >>

ChannelAttrs ==
    <<"channels=\"left,right,mono,side\"", "multiplier=\"1\"", "storable=\"yes\"">>

DelayAttrs == <<"maxDelay=\"2000\"", "storable=\"yes\"">>

\* The type ids of the catalogue that are in no attribute family and not in
\* the allow-list.
PlainTypes ==
    { <<"readSPDIFOnRegister">>, <<"readIsDaisyChainSlaveRegister">>,
      <<"sensitivitySPDIFRegister">>, <<"tuningForkPitchRegister">>,
      <<"tuningForkOnRegister">> }

\* C12: the attributes of a resolved catalogue entry follow from its type id
\* alone, whatever the value and the store: the channel enumeration for ids
\* that start with channelSelect, the maximum delay for ids that start with
\* delay, exactly storable="yes" for the ids of the allow-list and of the
\* invert, levels, filter-bank and tone-control families, and no attributes for
\* every other id, such as readSPDIFOnRegister.
C12_AttrsFollowTypeId ==
    out.op = "save_to_xml" =>
        \A k \in Entries :
            EntryLine(out.ret, k).kind = "metadata" =>
                LET t == param_mapping[k].xml_type
                    a == EntryLine(out.ret, k).attrs
                IN  /\ t[1] = "channelSelect" => a = ChannelAttrs
                    /\ t[1] = "delay" => a = DelayAttrs
                    /\ (\/ t \in AllowList
                        \/ t[1] \in {"invert", "levels", "IIR_", "toneControl"}
                        \/ \E i \in 1..Len(t) : t[i] = "Filter") => a = Storable
                    /\ t \in PlainTypes => a = <<>>
                    /\ a \in {ChannelAttrs, DelayAttrs, Storable, <<>>}
                    /\ a = <<>> => t \in PlainTypes

\* C12 witness: a descriptor in which readSPDIFOnRegister resolves and has no
\* attributes, delayARegister resolves to another value and has the delay
\* attributes, and the levels entries have storable="yes".
C12_Witness ==
    /\ out.op = "save_to_xml"
    /\ \E k, j, l \in Entries :
           /\ param_mapping[k].xml_type = <<"readSPDIFOnRegister">>
           /\ EntryLine(out.ret, k).kind = "metadata"
           /\ EntryLine(out.ret, k).attrs = <<>>
           /\ param_mapping[j].xml_type = <<"delay", "ARegister">>
           /\ EntryLine(out.ret, j).kind = "metadata"
           /\ EntryLine(out.ret, j).attrs = DelayAttrs
           /\ EntryLine(out.ret, j).text # EntryLine(out.ret, k).text
           /\ IsChannelPattern(param_mapping[l])
           /\ EntryLine(out.ret, l).attrs = Storable

\* The presets, and the default version of each (the version override of
\* XmlVersions is none of them).
PresetVersions ==
    (<<"beocreate">> :> <<"11">>) @@ (<<"dacdsp">> :> <<"15">>)
        @@ (<<"dspaddon">> :> <<"14">>)

\* The preamble's value element of a type id.
PreambleLine(xml, type) ==
    xml[CHOOSE k \in 1..Len(PreambleTypes) : PreambleTypes[k] = type]

get_parameters_by_cell(params, cell_name) ==
    LET OfCell(param) == param.cell_name = cell_name
    IN  SelectSeq(params, OfCell)

\* get_unique_cells: set(...), the distinct cell names.
get_unique_cells(params) == {params[i].cell_name : i \in 1..Len(params)}

\* list(set(...)): the orders a set may be iterated in.
ListsOfSet(S) ==
    {l \in [1..Cardinality(S) -> S] : \A x \in S : \E k \in DOMAIN l : l[k] = x}

\* The cell names of this model in the order of Python's str comparison.
CodePointOrder ==
    << "Channel Select.Ch_A", "Delay_A", "Input Detection.SPDIF on read",
       "Loudspeaker EQ.IIR_A", "MasterVol" >>

WordRank(w) == CHOOSE k \in 1..Len(CodePointOrder) : CodePointOrder[k] = w

\* a < b of two cell names, word by word.
RECURSIVE StrBefore(_, _)
StrBefore(a, b) ==
    IF b = <<>> THEN FALSE
    ELSE IF a = <<>> THEN TRUE
    ELSE IF Head(a) = Head(b) THEN StrBefore(Tail(a), Tail(b))
    ELSE WordRank(Head(a)) < WordRank(Head(b))

\* sorted(d.keys())
RECURSIVE SortedOf(_)
SortedOf(S) ==
    IF S = {} THEN <<>>
    ELSE LET least == CHOOSE a \in S : \A b \in S \ {a} : StrBefore(a, b)
         IN  <<least>> \o SortedOf(S \ {least})

sorted_keys(d) == SortedOf(DOMAIN d)

\* ', '.join(addresses)
RECURSIVE JoinComma(_)
JoinComma(l) ==
    IF l = <<>> THEN <<>>
    ELSE IF Len(l) = 1 THEN l[1]
    ELSE l[1] \o <<",", SP>> \o JoinComma(Tail(l))

\* range_str: the one address, or "[min, max]".
range_str(min_addr, max_addr) ==
    IF min_addr = max_addr THEN StrOf(min_addr)
    ELSE <<"[">> \o StrOf(min_addr) \o <<",", SP>> \o StrOf(max_addr) \o <<"]">>

\* One print: a line of text (the padding of its columns left out), or the
\* descriptor.
Line(t) == [kind |-> "text", text |-> t]

XmlText(xml_lines) == [kind |-> "xml", text |-> xml_lines]

print_parameters(params) ==
    IF params = <<>> THEN <<Line(<<"No parameters found.">>)>>
    ELSE <<Line(<<"Cell Name", SP, "Parameter Name", SP, "Address">>), Line(<<"-">>)>>
         \o [k \in 1..Len(params) |->
                Line(params[k].cell_name \o <<SP>> \o params[k].parameter_name
                         \o <<SP>> \o params[k].parameter_address)]

\* The addresses of a printed list: the first ten, then how many more.
AddressStr(addresses) ==
    IF Len(addresses) <= 10 THEN JoinComma(addresses)
    ELSE JoinComma(SubSeq(addresses, 1, 10))
             \o <<",", SP, "...", SP, "(+">> \o StrOf(Len(addresses) - 10) \o <<SP, "more)">>

print_address_lists(params) ==
    IF params = <<>> THEN <<Line(<<"No parameters found.">>)>>
    ELSE LET cell_addresses == get_cells_with_address_lists(params)
             cells == sorted_keys(cell_addresses)
         IN  <<Line(<<"Cell Name", SP, "Address Count", SP, "Addresses">>), Line(<<"-">>)>>
             \o [k \in 1..Len(cells) |->
                    Line(cells[k] \o <<SP>> \o StrOf(Len(cell_addresses[cells[k]]))
                             \o <<SP>> \o AddressStr(cell_addresses[cells[k]]))]

print_address_ranges(params) ==
    IF params = <<>> THEN <<Line(<<"No parameters found.">>)>>
    ELSE LET cell_ranges == get_cells_with_address_ranges(params)
             cells == sorted_keys(cell_ranges)
         IN  <<Line(<<"Cell Name", SP, "Address Count", SP, "Address Range">>), Line(<<"-">>)>>
             \o [k \in 1..Len(cells) |->
                    Line(cells[k] \o <<SP>> \o StrOf(cell_ranges[cells[k]].count)
                             \o <<SP>> \o range_str(cell_ranges[cells[k]].min_address,
                                                    cell_ranges[cells[k]].max_address))]

\* What an export does: whether it opens the output file, whether the write
\* succeeds and with what data, and what it prints.
NoEffect == [opened |-> FALSE, written |-> FALSE, data |-> <<>>, printed |-> <<>>]

Skipped(lines) == [opened |-> FALSE, written |-> FALSE, data |-> <<>>, printed |-> lines]

\* with open(output_path, 'w'): the file written, or the exception caught.
Written(ok, data, saved, failed) ==
    IF ok
    THEN [opened |-> TRUE, written |-> TRUE, data |-> data, printed |-> <<Line(saved)>>]
    ELSE [opened |-> TRUE, written |-> FALSE, data |-> <<>>, printed |-> <<Line(failed)>>]

\* What csv.DictWriter writes: the header, then the rows.
Csv(fieldnames, rows) == [kind |-> "csv", header |-> fieldnames, rows |-> rows]

save_to_csv(params, output_path, ok) ==
    IF params = <<>> THEN Skipped(<<Line(<<"No parameters to save.">>)>>)
    ELSE Written(ok,
                 Csv(<<"cell_name", "parameter_name", "parameter_address">>, params),
                 <<"Parameters saved to ">> \o output_path,
                 <<"Error saving to CSV: ">>)

save_address_lists_to_csv(params, output_path, ok) ==
    IF params = <<>> THEN Skipped(<<Line(<<"No parameters to save.">>)>>)
    ELSE LET cell_addresses == get_cells_with_address_lists(params)
             cells == sorted_keys(cell_addresses)
         IN  Written(ok,
                     Csv(<<"cell_name", "address_count", "addresses">>,
                         [k \in 1..Len(cells) |->
                             [cell_name |-> cells[k],
                              address_count |-> StrOf(Len(cell_addresses[cells[k]])),
                              addresses |-> JoinComma(cell_addresses[cells[k]])]]),
                     <<"Cell address lists saved to ">> \o output_path,
                     <<"Error saving to CSV: ">>)

save_address_ranges_to_csv(params, output_path, ok) ==
    IF params = <<>> THEN Skipped(<<Line(<<"No parameters to save.">>)>>)
    ELSE LET cell_ranges == get_cells_with_address_ranges(params)
             cells == sorted_keys(cell_ranges)
         IN  Written(ok,
                     Csv(<<"cell_name", "address_count", "min_address", "max_address",
                           "address_range">>,
                         [k \in 1..Len(cells) |->
                             [cell_name |-> cells[k],
                              address_count |-> StrOf(cell_ranges[cells[k]].count),
                              min_address |-> StrOf(cell_ranges[cells[k]].min_address),
                              max_address |-> StrOf(cell_ranges[cells[k]].max_address),
                              address_range |-> range_str(cell_ranges[cells[k]].min_address,
                                                          cell_ranges[cells[k]].max_address)]]),
                     <<"Cell address ranges saved to ">> \o output_path,
                     <<"Error saving to CSV: ">>)

\* The end of save_to_xml: the descriptor written to output_path, or printed.
XmlOutput(xml_lines, output_path, ok) ==
    IF output_path # NoArg
    THEN Written(ok, [kind |-> "xml", lines |-> xml_lines],
                 <<"XML metadata saved to ">> \o output_path,
                 <<"Error saving to XML: ">>)
    ELSE Skipped(<<XmlText(xml_lines)>>)

\* ------------------------------------------------------- SpecMain: main

\* The input files of the runs: none; an empty one; one whose only block has
\* no address; one record; two cells; one cell with one address spelt twice.
MainFiles ==
    { NoFile,
      FileOf(<<>>),
      FileOf(JoinLines(<<CellLine(<<"Delay_A">>), ParamLine(<<"DelaySigma300Alg1delay">>),
                         AddrLine(<<"x">>)>>)),
      FileOf(JoinLines(<<CellLine(<<"Delay_A">>), ParamLine(<<"DelaySigma300Alg1delay">>),
                         AddrLine(<<"5">>)>>)),
      FileOf(JoinLines(<<CellLine(<<"Loudspeaker EQ.IIR_A">>), ParamLine(<<"EnableSPDIF", "x">>),
                         AddrLine(<<"7">>)>>)
                 \o BlockSep
                 \o JoinLines(<<CellLine(<<"Delay_A">>), ParamLine(<<"DelaySigma300Alg1delay">>),
                                AddrLine(<<"5">>)>>)),
      FileOf(JoinLines(<<CellLine(<<"Delay_A">>), ParamLine(<<"DelaySigma300Alg1delay">>),
                         AddrLine(<<"5">>)>>)
                 \o BlockSep
                 \o JoinLines(<<CellLine(<<"Delay_A">>), ParamLine(<<"EnableSPDIF", "x">>),
                                AddrLine(<<"0", "5">>)>>)) }

\* --cell: not given, two cells of the input files, and a cell of none.
MainCells == {NoArg, <<"Delay_A">>, <<"Loudspeaker EQ.IIR_A">>, <<"Nope">>}

\* --output: not given, or a path.
MainOutputs == {NoArg, <<"out.csv">>}

\* What parse_args returns.
MainArgs ==
    [input_file : {<<"in.params">>}, output : MainOutputs, cell : MainCells,
     quiet : BOOLEAN, address_lists : BOOLEAN, address_range : BOOLEAN,
     xml : BOOLEAN, card : CardTypes, version : Versions]

MainInit ==
    /\ args \in MainArgs
    /\ file \in MainFiles
    /\ pc = "start"
    /\ io = <<>> /\ outfile = NoFile /\ stdout = <<>>
    /\ content = NoFile /\ parameters = <<>> /\ out = NoQuery
    /\ text = <<>> /\ blocks = NotCalled
    /\ block = <<>> /\ param_info = NotCalled

\* One open(): the path and the mode.
Opened(path, mode) == [path |-> path, mode |-> mode]

\* A test of the two modes that never finds a conflict.
ConflictNever(a) == FALSE

\* args.address_lists and args.address_range
Conflict(a) == a.address_lists /\ a.address_range

\* The conflicting modes: the error, and the return.
MainConflict ==
    /\ pc = "start"
    /\ Conflict(args)
    /\ stdout' = Append(stdout, Line(<<"Error: Cannot use both --address-lists and --address-range at the same time.">>))
    /\ pc' = "done"
    /\ UNCHANGED <<file, content, parameters, out, text, blocks, block, param_info>>
    /\ UNCHANGED <<args, io, outfile>>

\* dsp_parser.parse_file(args.input_file) when open() and read() succeed.
MainParseFile ==
    /\ pc = "start"
    /\ ~Conflict(args)
    /\ file.exists
    /\ io' = Append(io, Opened(args.input_file, "r"))
    /\ content' = file
    /\ parameters' = Reset(parameters) \o ParseContent(file.text)
    /\ pc' = "parsed"
    /\ UNCHANGED <<file, out, text, blocks, block, param_info>>
    /\ UNCHANGED <<args, outfile, stdout>>

\* dsp_parser.parse_file(args.input_file) when open() or read() raises: the
\* file is missing (FileNotFoundError), or cannot be read.
MainParseFileError ==
    /\ pc = "start"
    /\ ~Conflict(args)
    /\ io' = Append(io, Opened(args.input_file, "r"))
    /\ content' = NoFile
    /\ parameters' = Reset(parameters)
    /\ stdout' = Append(stdout,
                        IF file.exists THEN Line(<<"Error reading file: ">>)
                        ELSE Line(<<"Error: File '">> \o args.input_file \o <<"' not found.">>))
    /\ pc' = "parsed"
    /\ UNCHANGED <<file, out, text, blocks, block, param_info>>
    /\ UNCHANGED <<args, outfile>>

\* A test of the store that never finds it empty.
NoParametersNever(params) == FALSE

\* not parameters
NoParameters(params) == params = <<>>

\* The empty store: the message, and the return.
MainNoParameters ==
    /\ pc = "parsed"
    /\ NoParameters(parameters)
    /\ stdout' = Append(stdout, Line(<<"No parameters found in the file.">>))
    /\ pc' = "done"
    /\ UNCHANGED <<file, content, parameters, out, text, blocks, block, param_info>>
    /\ UNCHANGED <<args, io, outfile>>

\* The store has records: the count is printed and the mode is chosen.
MainReport ==
    /\ pc = "parsed"
    /\ ~NoParameters(parameters)
    /\ stdout' = Append(stdout,
                        Line(<<"Successfully parsed ">> \o StrOf(Len(parameters))
                                 \o <<" parameters from ">> \o args.input_file))
    /\ pc' = IF args.xml THEN "xml"
             ELSE IF args.address_range THEN "address_range"
             ELSE IF args.address_lists THEN "address_lists"
             ELSE "parameters"
    /\ UNCHANGED <<file, content, parameters, out, text, blocks, block, param_info>>
    /\ UNCHANGED <<args, io, outfile>>

\* What an export leaves behind: the open, the file, the prints.
Apply(effect, path, shown, summary) ==
    /\ io' = IF effect.opened THEN Append(io, Opened(path, "w")) ELSE io
    /\ outfile' = IF effect.written THEN FileOf(effect.data) ELSE outfile
    /\ stdout' = stdout \o shown \o effect.printed \o summary

\* The xml mode: save_to_xml, and the line that follows it.
MainXml ==
    /\ pc = "xml"
    /\ \E ok \in BOOLEAN :
           Apply(XmlOutput(save_to_xml(parameters, args.card, args.version),
                           args.output, ok),
                 args.output,
                 <<>>,
                 IF ~args.quiet /\ args.output # NoArg
                 THEN <<Line(<<"\nXML metadata generated and saved to ">> \o args.output)>>
                 ELSE <<>>)
    /\ pc' = "done"
    /\ UNCHANGED <<file, content, parameters, out, text, blocks, block, param_info>>
    /\ UNCHANGED args

\* "Cell not found" and the cells there are, sorted.
CellNotFound(cell, cells) ==
    <<Line(<<"Cell '">> \o cell \o <<"' not found">>), Line(<<"Available cells:">>)>>
        \o [k \in 1..Len(cells) |-> Line(<<"  - ">> \o cells[k])]

\* sum(...) over the cells of a dictionary.
RECURSIVE SumOver(_, _)
SumOver(cells, n) ==
    IF cells = <<>> THEN 0 ELSE n[Head(cells)] + SumOver(Tail(cells), n)

\* The summary of a mode.
Summary(total, cells, addresses) ==
    <<Line(<<"\nSummary:">>),
      Line(<<"Total parameters: ">> \o StrOf(total)),
      Line(<<"Unique cells: ">> \o StrOf(cells))>>
        \o addresses

\* The address range mode.
MainAddressRange ==
    /\ pc = "address_range"
    /\ \E ok \in BOOLEAN :
           LET cell_ranges == get_cells_with_address_ranges(parameters)
               cells == sorted_keys(cell_ranges)
               found == args.cell # NoArg /\ args.cell \in DOMAIN cell_ranges
               shown ==
                   IF args.cell # NoArg
                   THEN IF args.cell \in DOMAIN cell_ranges
                        THEN <<Line(<<"\nAddress range for cell '">> \o args.cell \o <<"':">>),
                               Line(<<"Address count: ">> \o StrOf(cell_ranges[args.cell].count)),
                               Line(<<"Address range: ">>
                                        \o range_str(cell_ranges[args.cell].min_address,
                                                     cell_ranges[args.cell].max_address))>>
                        ELSE CellNotFound(args.cell, cells)
                   ELSE IF ~args.quiet
                   THEN <<Line(<<"\nCells with address ranges:">>)>>
                            \o print_address_ranges(parameters)
                   ELSE <<>>
               saved ==
                   IF args.output = NoArg THEN NoEffect
                   ELSE IF found
                   THEN save_address_ranges_to_csv(
                            get_parameters_by_cell(parameters, args.cell), args.output, ok)
                   ELSE save_address_ranges_to_csv(parameters, args.output, ok)
               summary ==
                   IF ~args.quiet
                   THEN Summary(Len(parameters), Len(cells),
                                <<Line(<<"Unique addresses: ">>
                                           \o StrOf(SumOver(cells,
                                                  [c \in DOMAIN cell_ranges |-> cell_ranges[c].count])))>>)
                   ELSE <<>>
           IN  Apply(saved, args.output, shown, summary)
    /\ pc' = "done"
    /\ UNCHANGED <<file, content, parameters, out, text, blocks, block, param_info>>
    /\ UNCHANGED args

\* The address lists mode.
MainAddressLists ==
    /\ pc = "address_lists"
    /\ \E ok \in BOOLEAN :
           LET cell_addresses == get_cells_with_address_lists(parameters)
               cells == sorted_keys(cell_addresses)
               found == args.cell # NoArg /\ args.cell \in DOMAIN cell_addresses
               shown ==
                   IF args.cell # NoArg
                   THEN IF args.cell \in DOMAIN cell_addresses
                        THEN <<Line(<<"\nAddress list for cell '">> \o args.cell \o <<"':">>),
                               Line(<<"Address count: ">>
                                        \o StrOf(Len(cell_addresses[args.cell]))),
                               Line(<<"Addresses: ">> \o JoinComma(cell_addresses[args.cell]))>>
                        ELSE CellNotFound(args.cell, cells)
                   ELSE IF ~args.quiet
                   THEN <<Line(<<"\nCells with address lists:">>)>>
                            \o print_address_lists(parameters)
                   ELSE <<>>
               saved ==
                   IF args.output = NoArg THEN NoEffect
                   ELSE IF found
                   THEN save_address_lists_to_csv(
                            get_parameters_by_cell(parameters, args.cell), args.output, ok)
                   ELSE save_address_lists_to_csv(parameters, args.output, ok)
               summary ==
                   IF ~args.quiet
                   THEN Summary(Len(parameters), Len(cells),
                                <<Line(<<"Unique addresses: ">>
                                           \o StrOf(SumOver(cells,
                                                  [c \in DOMAIN cell_addresses |->
                                                      Len(cell_addresses[c])])))>>)
                   ELSE <<>>
           IN  Apply(saved, args.output, shown, summary)
    /\ pc' = "done"
    /\ UNCHANGED <<file, content, parameters, out, text, blocks, block, param_info>>
    /\ UNCHANGED args

\* The mode of the individual parameters.  The cells there are print in the
\* order of a set, which is any order.
MainParameters ==
    /\ pc = "parameters"
    /\ \E ok \in BOOLEAN, cells \in ListsOfSet(get_unique_cells(parameters)) :
           LET filtered_params == get_parameters_by_cell(parameters, args.cell)
               shown ==
                   IF args.cell # NoArg
                   THEN IF filtered_params # <<>>
                        THEN <<Line(<<"\nParameters for cell '">> \o args.cell \o <<"':">>)>>
                                 \o print_parameters(filtered_params)
                        ELSE <<Line(<<"No parameters found for cell '">> \o args.cell \o <<"'">>),
                               Line(<<"Available cells:">>)>>
                                 \o [k \in 1..Len(cells) |-> Line(<<"  - ">> \o cells[k])]
                   ELSE IF ~args.quiet
                   THEN <<Line(<<"\nAll parameters:">>)>> \o print_parameters(parameters)
                   ELSE <<>>
               saved ==
                   IF args.output = NoArg THEN NoEffect
                   ELSE IF args.cell # NoArg
                   THEN save_to_csv(filtered_params, args.output, ok)
                   ELSE save_to_csv(parameters, args.output, ok)
               summary ==
                   IF ~args.quiet
                   THEN Summary(Len(parameters), Cardinality(get_unique_cells(parameters)), <<>>)
                   ELSE <<>>
           IN  Apply(saved, args.output, shown, summary)
    /\ pc' = "done"
    /\ UNCHANGED <<file, content, parameters, out, text, blocks, block, param_info>>
    /\ UNCHANGED args

MainNext ==
    \/ MainConflict
    \/ MainParseFile
    \/ MainParseFileError
    \/ MainNoParameters
    \/ MainReport
    \/ MainXml
    \/ MainAddressRange
    \/ MainAddressLists
    \/ MainParameters

SpecMain == MainInit /\ [][MainNext]_vars

\* The opens of a mode, among those so far.
OpensIn(mode) == {k \in 1..Len(io) : io[k].mode = mode}

\* C14: when both the list and the range mode are requested, main reports the
\* conflict and returns before any file is opened: the input file is never
\* read and no output file is written, whatever the output path, the cell
\* filter, the metadata mode and the quiet flag are.
C14_ConflictBeforeAnyFile ==
    (pc # "none" /\ args.address_lists /\ args.address_range) =>
        /\ pc \in {"start", "done"}
        /\ io = <<>>
        /\ content = NoFile /\ parameters = <<>>
        /\ outfile = NoFile
        /\ pc = "done" =>
               /\ Len(stdout) = 1
               /\ stdout[1].kind = "text"
               /\ Head(stdout[1].text) = "Error: Cannot use both --address-lists and --address-range at the same time."

\* C14 witness: a run with both modes, the metadata mode, an output path, a
\* cell filter and an input file with records has returned with the error.
C14_Witness ==
    /\ pc = "done"
    /\ args.address_lists /\ args.address_range
    /\ args.xml /\ args.output # NoArg /\ args.cell # NoArg /\ ~args.quiet
    /\ file.exists /\ ParseContent(file.text) # <<>>
    /\ io = <<>> /\ outfile = NoFile
    /\ Len(stdout) = 1

\* C15: whenever parse_file yields no record, because the input file is
\* missing or cannot be read or because no block gives a record, the run
\* reports it and halts: no export file and no descriptor is written, and no
\* descriptor is printed, in every mode, the metadata mode with an output path
\* included.
C15_NoRecordsNoOutput ==
    (pc # "none" /\ OpensIn("r") # {} /\ parameters = <<>>) =>
        /\ pc \in {"parsed", "done"}
        /\ OpensIn("w") = {}
        /\ outfile = NoFile
        /\ \A k \in 1..Len(stdout) : stdout[k].kind = "text"
        /\ pc = "done" =>
               /\ stdout[Len(stdout)] = Line(<<"No parameters found in the file.">>)
               /\ Len(stdout) = IF content.exists THEN 1 ELSE 2

\* C15 witness: a run in metadata mode with an output path has read a file
\* whose only block gives no record, and has returned with nothing written.
C15_Witness ==
    /\ pc = "done"
    /\ args.xml /\ args.output # NoArg
    /\ content.exists /\ content.text # <<>>
    /\ parameters = <<>>
    /\ OpensIn("r") # {} /\ OpensIn("w") = {}
    /\ outfile = NoFile
    /\ stdout = <<Line(<<"No parameters found in the file.">>)>>

\* C18: in the parameters, address lists and address range modes, when a cell
\* filter and an output path are both given, every row of the export written
\* is a row of the filtered cell; so when the store has no record of that
\* cell, no row of another cell is written.
C18_ExportHoldsOnlyFilteredCell ==
    (pc = "done" /\ ~args.xml /\ args.cell # NoArg /\ args.output # NoArg
         /\ outfile.exists) =>
        \A k \in 1..Len(outfile.text.rows) :
            outfile.text.rows[k].cell_name = args.cell

\* ------------------------------- SpecReparse: parse_file called again

\* The most calls of parse_file on the one parser.
MaxCalls == 2

\* One call of parse_file: the open, and what was read (NoFile when it raised).
Read(path, f) == [path |-> path, mode |-> "r", read |-> f]

ReparseInit == Init

\* The environment replaces the input file, or removes it.
ReplaceFile ==
    /\ \E f \in MainFiles : f # file /\ file' = f
    /\ UNCHANGED <<content, parameters, out, text, blocks, block, param_info>>
    /\ UNCHANGED mainVars

\* parse_file when open() and read() succeed.
ParseFileAgain ==
    /\ Len(io) < MaxCalls
    /\ file.exists
    /\ io' = Append(io, Read(<<"in.params">>, file))
    /\ content' = file
    /\ parameters' = Reset(parameters) \o ParseContent(file.text)
    /\ out' = [op |-> "parse_file", ret |-> parameters']
    /\ UNCHANGED <<file, text, blocks, block, param_info>>
    /\ UNCHANGED <<args, pc, outfile, stdout>>

\* parse_file when open() or read() raises.
ParseFileAgainError ==
    /\ Len(io) < MaxCalls
    /\ io' = Append(io, Read(<<"in.params">>, NoFile))
    /\ content' = NoFile
    /\ parameters' = Reset(parameters)
    /\ out' = [op |-> "parse_file", ret |-> parameters']
    /\ UNCHANGED <<file, text, blocks, block, param_info>>
    /\ UNCHANGED <<args, pc, outfile, stdout>>

ReparseNext ==
    \/ ReplaceFile
    \/ ParseFileAgain
    \/ ParseFileAgainError
    \/ GetAddressLists
    \/ GetAddressRanges
    \/ SaveToXml

SpecReparse == ReparseInit /\ [][ReparseNext]_vars

\* The field of a key.
FieldOf(key) == CHOOSE f \in Fields : f.key = key

\* The records of a text: one for each block in which each of the three
\* prefixes starts a line that matches its pattern, in the order of the blocks.
RecordsIn(t) ==
    LET bs == _split_into_blocks(t)
        complete == {k \in 1..Len(bs) : HasAllFields(bs[k])}
    IN  [i \in 1..Cardinality(complete) |->
            [cell_name |-> FieldValue(bs[Kth(complete, i)], FieldOf("cell_name")),
             parameter_name |-> FieldValue(bs[Kth(complete, i)], FieldOf("parameter_name")),
             parameter_address |->
                 FieldValue(bs[Kth(complete, i)], FieldOf("parameter_address"))]]

\* The aggregation and descriptor queries.
Queries ==
    {"get_cells_with_address_lists", "get_cells_with_address_ranges", "save_to_xml"}

\* C16: after any sequence of parse_file calls on one parser, the store holds
\* exactly the records of the input of the most recent call, in block order,
\* and is empty if that call could not read its file; no record of an earlier
\* call remains; and a step that ends in an aggregation or descriptor query
\* leaves the store as it was.
C16_StoreIsLastParse ==
    /\ [](io # <<>> =>
              parameters = IF io[Len(io)].read.exists
                           THEN RecordsIn(io[Len(io)].read.text)
                           ELSE <<>>)
    /\ [][out'.op \in Queries => parameters' = parameters]_vars

\* C16 witness: parse_file read a file of two records, then a file of one
\* record; a query followed, and the store holds the one record.
C16_Witness ==
    /\ Len(io) = 2
    /\ io[1].read.exists /\ Len(RecordsIn(io[1].read.text)) = 2
    /\ io[2].read.exists /\ Len(RecordsIn(io[2].read.text)) = 1
    /\ out.op \in Queries
    /\ Len(parameters) = 1

\* ------------------------------------------ SpecSplit: a text of one block

\* Whether the text holds a run of two or more consecutive blank lines: three
\* newlines with only whitespace between them.
BlankRunIn(s) ==
    \E p, r \in 1..Len(s) :
        /\ p < r
        /\ \A m \in p..r : IsSpace(s[m])
        /\ Cardinality({m \in p..r : s[m] = NL}) >= 3

\* C17 as stated: whenever the text holds no run of two or more consecutive
\* blank lines, _split_into_blocks returns exactly one block, the whole text
\* without its leading and trailing whitespace.
C17_OneBlockWithoutBlankRun ==
    (blocks.called /\ ~BlankRunIn(text)) => blocks.ret = <<Strip(text)>>

\* C17 amended: whenever the text holds no run of two or more consecutive
\* blank lines and has a character that is not whitespace, _split_into_blocks
\* returns exactly one block, the text from its first to its last such
\* character; a text of whitespace only, the empty text included, gives no
\* block.
C17_OneBlockIfAnyInk ==
    (blocks.called /\ ~BlankRunIn(text)) =>
        IF Inked(text) = {} THEN blocks.ret = <<>>
        ELSE blocks.ret = <<SubSeq(text, SetMin(Inked(text)), SetMax(Inked(text)))>>

\* C17 witness: a text that starts with whitespace and holds a single blank
\* line between two of its lines came back as one block, shorter than the text
\* and with the blank line in it.
C17_Witness ==
    /\ blocks.called
    /\ ~BlankRunIn(text)
    /\ text # <<>> /\ IsSpace(text[1])
    /\ \E p, q \in Inked(text) : p < q /\ OneBlankLineBetween(text, p, q)
    /\ Len(blocks.ret) = 1
    /\ Len(blocks.ret[1]) < Len(text)

====
